---- MODULE Spec2Model ----
(***************************************************************************)
(* The autonomous agent script of autoship-mcp (scripts/claude-agent.js,   *)
(* kept as src/unnamed/part_001): the McpClient class that speaks          *)
(* line-oriented JSON-RPC with a child process, and the runAgent           *)
(* conversation loop that drives it.                                       *)
(*                                                                         *)
(* Bytes and characters are tokens.  An ASCII token stands for a run of    *)
(* ASCII bytes of a JSON line (cutting a chunk inside such a run is the    *)
(* same as cutting between two ASCII bytes):                               *)
(*   "1".."9"  the member  "id":n  of a message                            *)
(*   "R"       the member  "result":"...  (the payload follows)            *)
(*   "E"       the member  "error":{"message":"...                         *)
(*   "M"       the member  "method":"...                                   *)
(*   "N"       the members  "error":null,"result":"...  (an error member   *)
(*             whose value is falsy, then the result)                      *)
(*   "a"       an ASCII character of a payload string; in the result of    *)
(*             tools/list, the entry of a tool named a                     *)
(*   "bash", "read_file", "list_files"   in the result of tools/list, the  *)
(*             entry of a tool with that name                              *)
(*   "isError" the member  "isError":true  of a result                     *)
(*   "SP"      a blank, "NL" the newline byte 0x0A                         *)
(*   "L","C"   the lead and the continuation byte of one two-byte UTF-8    *)
(*             character; decoded together they are the character "ch",    *)
(*             decoded apart each is U+FFFD, written "FFFD"                *)
(***************************************************************************)
EXTENDS Integers, Sequences, FiniteSets, TLC

VARIABLES
  process,          \* McpClient.process: "null" or "child"
  requestId,        \* McpClient.requestId
  pendingRequests,  \* McpClient.pendingRequests: id -> index in calls of the promise
  buffer,           \* McpClient.buffer: characters after the last newline
  timers,           \* armed setTimeout callbacks, in the order they were armed
  stdin,            \* messages written to the child's stdin, in order
  calls,            \* the promises sendRequest returned, in order of creation
  connectPc,        \* position of McpClient.connect: "none", "initialize", "connected", "failed"
  killed,           \* number of kill signals McpClient.close sent
  received,         \* every byte the stdout handler was given, in order
  handled,          \* every message JSON.parse returned in processBuffer, in order
  pc,               \* position of runAgent
  turn,             \* runAgent's turn
  messages,         \* runAgent's messages (the history)
  response,         \* the model response runAgent is processing
  blockIdx,         \* index in response.content of the block whose tool is executing
  toolResults,      \* runAgent's toolResults of the current turn
  awaited,          \* index in calls of the promise runAgent awaits
  modelCalls,       \* number of anthropic.messages.create calls made
  dispatched,       \* ids of the tool_use blocks whose execution was started, in order
  log,              \* what the run reported to the operator, in order
  exitCode,         \* -1 while running, 0 after runAgent returned, 1 after process.exit(1)
  allTools,         \* runAgent's allTools: the names of the merged tool set, in order
  childExit,        \* "running", or the exit code the child's "close" event carried
  lastRequest       \* the tools and messages of the latest anthropic.messages.create call

vars == <<process, requestId, pendingRequests, buffer, timers, stdin, calls, connectPc,
          killed, received, handled, pc, turn, messages, response, blockIdx,
          toolResults, awaited, modelCalls, dispatched, log, exitCode, allTools,
          childExit, lastRequest>>

(***************************************************************************)
(* Bounds of the model.                                                    *)
(***************************************************************************)
MaxCalls == 2      \* sendRequest calls of one client in the client-level runs
MaxLines == 3      \* response lines the child writes in the client-level runs
MaxStream == 5     \* bytes the child writes in the framing runs
MaxChunk == 3      \* bytes of one stdout chunk in the framing runs

(***************************************************************************)
(* Sequences.                                                              *)
(***************************************************************************)
Last(s) == s[Len(s)]

Front(s) == SubSeq(s, 1, Len(s) - 1)

RECURSIVE SeqsUpTo(_, _)
SeqsUpTo(S, n) ==
  IF n = 0 THEN {<<>>}
  ELSE LET shorter == SeqsUpTo(S, n - 1)
       IN shorter \cup {Append(s, x) : s \in {t \in shorter : Len(t) = n - 1}, x \in S}

(***************************************************************************)
(* Buffer.toString(): UTF-8 decoding of ONE chunk.  A lead byte followed   *)
(* by its continuation byte is one character; a lead byte with no          *)
(* continuation byte after it in the chunk, and a continuation byte with   *)
(* no lead byte before it, each decode to U+FFFD.                          *)
(***************************************************************************)
RECURSIVE toString(_)
toString(data) ==
  IF data = <<>> THEN <<>>
  ELSE IF Head(data) = "L" /\ Len(data) >= 2 /\ data[2] = "C"
       THEN <<"ch">> \o toString(SubSeq(data, 3, Len(data)))
  ELSE IF Head(data) \in {"L", "C"}
       THEN <<"FFFD">> \o toString(Tail(data))
  ELSE <<Head(data)>> \o toString(Tail(data))

(***************************************************************************)
(* String.prototype.split("\n"): the pieces between newlines; always at    *)
(* least one piece, the last one being what follows the last newline.      *)
(***************************************************************************)
RECURSIVE split(_)
split(s) ==
  IF \A i \in 1..Len(s) : s[i] # "NL" THEN <<s>>
  ELSE LET i == CHOOSE k \in 1..Len(s) :
                  s[k] = "NL" /\ \A j \in 1..(k - 1) : s[j] # "NL"
       IN <<SubSeq(s, 1, i - 1)>> \o split(SubSeq(s, i + 1, Len(s)))

(***************************************************************************)
(* String.prototype.trim(): leading and trailing blanks removed.           *)
(***************************************************************************)
RECURSIVE trim(_)
trim(s) ==
  IF s = <<>> THEN s
  ELSE IF Head(s) = "SP" THEN trim(Tail(s))
  ELSE IF Last(s) = "SP" THEN trim(Front(s))
  ELSE s

(***************************************************************************)
(* JSON.parse(line).  A line is a message when, blanks around it aside, it *)
(* is an optional id member, then one of the members method, result or     *)
(* error, then the characters of that member's string.  Every character a  *)
(* JSON string can hold is accepted there, U+FFFD included.  Anything else *)
(* throws (ok = FALSE).  id 0 stands for a message without an id member.   *)
(***************************************************************************)
IdTokens == {"1", "2", "3", "4", "5", "6", "7", "8", "9"}

IdOf(tok) ==
  CASE tok = "1" -> 1 [] tok = "2" -> 2 [] tok = "3" -> 3
    [] tok = "4" -> 4 [] tok = "5" -> 5 [] tok = "6" -> 6
    [] tok = "7" -> 7 [] tok = "8" -> 8 [] tok = "9" -> 9

TokOf(id) == CHOOSE tok \in IdTokens : IdOf(tok) = id

MemberTokens == {"M", "R", "E", "N"}

StringChars == {"a", "ch", "FFFD"}

ResultTokens == {"bash", "read_file", "list_files", "isError"}

NoMessage == [ok |-> FALSE, id |-> 0, member |-> "", text |-> <<>>]

JSONparse(line) ==
  LET t == trim(line)
      hasId == t # <<>> /\ Head(t) \in IdTokens
      body == IF hasId THEN Tail(t) ELSE t
  IN IF body # <<>> /\ Head(body) \in MemberTokens
        /\ \A i \in 2..Len(body) : body[i] \in StringChars \cup ResultTokens
     THEN [ok |-> TRUE,
           id |-> IF hasId THEN IdOf(Head(t)) ELSE 0,
           member |-> Head(body),
           text |-> Tail(body)]
     ELSE NoMessage

(***************************************************************************)
(* JSON.stringify(message) + "\n" as the child writes a response line.     *)
(***************************************************************************)
ResponseLine(id, member, text) == <<TokOf(id), member>> \o text \o <<"NL">>

(***************************************************************************)
(* The state as one record, so that a handler that calls other functions   *)
(* is the composition of their effects.                                    *)
(***************************************************************************)
Cur ==
  [process |-> process, requestId |-> requestId, pending |-> pendingRequests,
   buffer |-> buffer, timers |-> timers, stdin |-> stdin, calls |-> calls,
   connectPc |-> connectPc, killed |-> killed, received |-> received,
   handled |-> handled, pc |-> pc, turn |-> turn, messages |-> messages,
   response |-> response, blockIdx |-> blockIdx, toolResults |-> toolResults,
   awaited |-> awaited, modelCalls |-> modelCalls, dispatched |-> dispatched,
   log |-> log, exitCode |-> exitCode, allTools |-> allTools, childExit |-> childExit,
   lastRequest |-> lastRequest]

Becomes(s) ==
  /\ process' = s.process
  /\ requestId' = s.requestId
  /\ pendingRequests' = s.pending
  /\ buffer' = s.buffer
  /\ timers' = s.timers
  /\ stdin' = s.stdin
  /\ calls' = s.calls
  /\ connectPc' = s.connectPc
  /\ killed' = s.killed
  /\ received' = s.received
  /\ handled' = s.handled
  /\ pc' = s.pc
  /\ turn' = s.turn
  /\ messages' = s.messages
  /\ response' = s.response
  /\ blockIdx' = s.blockIdx
  /\ toolResults' = s.toolResults
  /\ awaited' = s.awaited
  /\ modelCalls' = s.modelCalls
  /\ dispatched' = s.dispatched
  /\ log' = s.log
  /\ exitCode' = s.exitCode
  /\ allTools' = s.allTools
  /\ childExit' = s.childExit
  /\ lastRequest' = s.lastRequest

Without(f, x) == [i \in DOMAIN f \ {x} |-> f[i]]

With(f, x, v) == [i \in DOMAIN f \cup {x} |-> IF i = x THEN v ELSE f[i]]

(***************************************************************************)
(* The promise of one sendRequest call.  settles counts the calls of its   *)
(* resolve and reject functions; only the first one decides the outcome.   *)
(***************************************************************************)
NewCall(id, method) ==
  [id |-> id, method |-> method, state |-> "pending", via |-> "none",
   respId |-> 0, value |-> <<>>, settles |-> 0]

resolveThrowsOnIsError(c, m) ==
  IF c.state = "pending"
  THEN IF m.member = "R" /\ \E i \in 1..Len(m.text) : m.text[i] = "isError"
       THEN [c EXCEPT !.state = "rejected", !.via = "response", !.respId = m.id,
                      !.value = m.text, !.settles = @ + 1]
       ELSE [c EXCEPT !.state = "resolved", !.via = "response", !.respId = m.id,
                      !.value = IF m.member \in {"R", "N"} THEN m.text ELSE <<"undefined">>,
                      !.settles = @ + 1]
  ELSE [c EXCEPT !.settles = @ + 1]

resolve(c, m) ==
  IF c.state = "pending"
  THEN [c EXCEPT !.state = "resolved", !.via = "response", !.respId = m.id,
                 !.value = IF m.member \in {"R", "N"} THEN m.text ELSE <<"undefined">>,
                 !.settles = @ + 1]
  ELSE [c EXCEPT !.settles = @ + 1]

reject(c, via, respId, value) ==
  IF c.state = "pending"
  THEN [c EXCEPT !.state = "rejected", !.via = via, !.respId = respId,
                 !.value = value, !.settles = @ + 1]
  ELSE [c EXCEPT !.settles = @ + 1]

TimeoutError(method) == <<"Request", method, "timed out">>

(***************************************************************************)
(* processBuffer, lines 166-178: one parsed message against the pending    *)
(* map.                                                                    *)
(***************************************************************************)
\* A handler that takes a message without id for the answer to the oldest call.
HandleMessageNoIdToOldest(s, m) ==
  IF m.ok /\ DOMAIN s.pending # {} /\ (m.id = 0 \/ m.id \in DOMAIN s.pending)
  THEN LET id == IF m.id = 0
                 THEN CHOOSE i \in DOMAIN s.pending : \A j \in DOMAIN s.pending : i <= j
                 ELSE m.id
           k == s.pending[id]
       IN [s EXCEPT
             !.pending = Without(s.pending, id),
             !.calls[k] = IF m.member = "E"
                          THEN reject(s.calls[k], "response", m.id, m.text)
                          ELSE resolve(s.calls[k], m)]
  ELSE s

HandleMessageOldest(s, m) ==
  IF m.id # 0 /\ DOMAIN s.pending # {}
  THEN LET id == CHOOSE i \in DOMAIN s.pending : \A j \in DOMAIN s.pending : i <= j
           k == s.pending[id]
       IN [s EXCEPT
             !.pending = Without(s.pending, id),
             !.calls[k] = IF m.member = "E"
                          THEN reject(s.calls[k], "response", m.id, m.text)
                          ELSE resolve(s.calls[k], m)]
  ELSE s

HandleMessageAnyErrorMember(s, m) ==
  IF m.id # 0 /\ m.id \in DOMAIN s.pending
  THEN LET k == s.pending[m.id]
       IN [s EXCEPT
             !.pending = Without(s.pending, m.id),
             !.calls[k] = IF m.member \in {"E", "N"}
                          THEN reject(s.calls[k], "response", m.id, m.text)
                          ELSE resolve(s.calls[k], m)]
  ELSE s

HandleMessage(s, m) ==
  IF m.id # 0 /\ m.id \in DOMAIN s.pending
  THEN LET k == s.pending[m.id]
       IN [s EXCEPT
             !.pending = Without(s.pending, m.id),
             !.calls[k] = IF m.member = "E"
                          THEN reject(s.calls[k], "response", m.id, m.text)
                          ELSE resolve(s.calls[k], m)]
  ELSE s

(***************************************************************************)
(* processBuffer, lines 163-183: the loop over the complete lines.         *)
(***************************************************************************)
RECURSIVE HandleLinesStopsAtMalformed(_, _)
HandleLinesStopsAtMalformed(lines, s) ==
  IF lines = <<>> THEN s
  ELSE LET line == Head(lines)
           m == JSONparse(line)
       IN IF trim(line) # <<>> /\ ~m.ok THEN s
          ELSE HandleLinesStopsAtMalformed(
                 Tail(lines),
                 IF trim(line) # <<>>
                 THEN [HandleMessage(s, m) EXCEPT !.handled = Append(@, m)]
                 ELSE s)

RECURSIVE HandleLines(_, _)
HandleLines(lines, s) ==
  IF lines = <<>> THEN s
  ELSE LET line == Head(lines)
           m == JSONparse(line)
           next == IF trim(line) # <<>> /\ m.ok
                   THEN [HandleMessage(s, m) EXCEPT !.handled = Append(@, m)]
                   ELSE s
       IN HandleLines(Tail(lines), next)

(***************************************************************************)
(* processBuffer, lines 159-184.                                           *)
(***************************************************************************)
processBuffer(s) ==
  LET lines == split(s.buffer)
  IN HandleLines(Front(lines), [s EXCEPT !.buffer = Last(lines)])

(***************************************************************************)
(* The stdout "data" handler, lines 123-126.                               *)
(***************************************************************************)
onStdoutData(s, data) ==
  processBuffer([s EXCEPT !.buffer = @ \o toString(data),
                          !.received = @ \o data])

(***************************************************************************)
(* sendRequest, lines 191-206: the promise executor.  The new promise is   *)
(* the last element of calls.                                              *)
(***************************************************************************)
NextIdReuse(rid) == (rid % 2) + 1

NextId(rid) == rid + 1

RequestMessage(id, method) == [id |-> id, method |-> method, name |-> <<>>]

sendRequestNoTimer(s, method) ==
  LET id == NextId(s.requestId)
      k == Len(s.calls) + 1
  IN [s EXCEPT
        !.requestId = id,
        !.calls = Append(@, NewCall(id, method)),
        !.pending = With(s.pending, id, k),
        !.stdin = Append(@, RequestMessage(id, method))]

\* On a client without child (never connected, or closed) this.process is null:
\* line 195 throws after line 193 has set the entry, the promise rejects with
\* the TypeError and line 198 is not reached.
sendRequest(s, method) ==
  LET id == NextId(s.requestId)
      k == Len(s.calls) + 1
  IN IF s.process = "null"
     THEN [s EXCEPT
             !.requestId = id,
             !.calls = Append(@, reject(NewCall(id, method), "throw", 0, <<"TypeError">>)),
             !.pending = With(s.pending, id, k)]
     ELSE [s EXCEPT
             !.requestId = id,
             !.calls = Append(@, NewCall(id, method)),
             !.pending = With(s.pending, id, k),
             !.stdin = Append(@, RequestMessage(id, method)),
             !.timers = Append(@, [id |-> id, method |-> method, call |-> k])]

(***************************************************************************)
(* callTool, lines 213-219, up to its await: the tools/call request with   *)
(* params.name = name.                                                     *)
(***************************************************************************)
callTool(s, name) ==
  LET r == sendRequest(s, "tools/call")
  IN [r EXCEPT !.stdin[Len(r.stdin)].name = name]

(***************************************************************************)
(* sendNotification, lines 186-189.  id 0: the message has no id member.   *)
(***************************************************************************)
sendNotificationAsRequest(s, method) == sendRequest(s, method)

sendNotification(s, method) ==
  [s EXCEPT !.stdin = Append(@, RequestMessage(0, method))]

(***************************************************************************)
(* The setTimeout callback of sendRequest, lines 199-204.  t is the timer  *)
(* (the closure's id, method and reject).                                  *)
(***************************************************************************)
\* A timer that lets its request wait.
TimeoutCallbackIdle(s, t) == s

TimeoutCallbackUnguarded(s, t) ==
  [s EXCEPT
     !.pending = Without(s.pending, t.id),
     !.calls[t.call] = reject(s.calls[t.call], "timeout", 0, TimeoutError(t.method))]

TimeoutCallbackKeepsEntry(s, t) ==
  IF t.id \in DOMAIN s.pending
  THEN [s EXCEPT
          !.calls[t.call] = reject(s.calls[t.call], "timeout", 0, TimeoutError(t.method))]
  ELSE s

TimeoutCallback(s, t) ==
  IF t.id \in DOMAIN s.pending
  THEN [s EXCEPT
          !.pending = Without(s.pending, t.id),
          !.calls[t.call] = reject(s.calls[t.call], "timeout", 0, TimeoutError(t.method))]
  ELSE s

(***************************************************************************)
(* connect, lines 106-147: up to the await of the initialize request.      *)
(***************************************************************************)
connectStart(s) ==
  sendRequest([s EXCEPT !.process = "child", !.connectPc = "initialize"], "initialize")

(***************************************************************************)
(* connect, lines 147-156: after the initialize request settled.           *)
(***************************************************************************)
connectResumeAfterFailure(s) ==
  [sendNotification(s, "notifications/initialized") EXCEPT !.connectPc = "connected"]

connectResume(s) ==
  IF s.calls[1].state = "resolved"
  THEN [sendNotification(s, "notifications/initialized") EXCEPT !.connectPc = "connected"]
  ELSE [s EXCEPT !.connectPc = "failed"]

(***************************************************************************)
(* The child's "close" handler, lines 140-144: a report, nothing else.     *)
(* code "null" is the child ended by a signal.                             *)
(***************************************************************************)
\* A close handler that also gives up the calls in flight.
onCloseDropsPending(s, code) ==
  [s EXCEPT !.childExit = code, !.pending = [i \in {} |-> 0]]

onClose(s, code) ==
  [s EXCEPT !.childExit = code,
            !.log = IF code \notin {"0", "null"}
                    THEN Append(@, "[MCP process closed with code]")
                    ELSE @]

(***************************************************************************)
(* The child's stderr handler, lines 128-134: the chunk is lower-cased and  *)
(* reported when it holds the word "error".  A chunk is a sequence of      *)
(* words.                                                                  *)
(***************************************************************************)
toLowerCase(word) == IF word \in {"Error", "ERROR", "error"} THEN "error" ELSE word

includesError(chunk) == \E i \in 1..Len(chunk) : toLowerCase(chunk[i]) = "error"

onStderrData(s, chunk) ==
  IF includesError(chunk) THEN [s EXCEPT !.log = Append(@, "[MCP]")] ELSE s

(***************************************************************************)
(* close, lines 221-226.                                                   *)
(***************************************************************************)
closeUnguarded(s) == [s EXCEPT !.process = "null", !.killed = @ + 1]

close(s) ==
  IF s.process # "null"
  THEN [s EXCEPT !.process = "null", !.killed = @ + 1]
  ELSE s

(***************************************************************************)
(* Configuration, line 37.                                                 *)
(***************************************************************************)
MAX_TURNS == 50

(***************************************************************************)
(* Content blocks.  A tool name is its parts: <<"mcp_", n>> is the string  *)
(* "mcp_" followed by n.  The model service gives every tool_use block of  *)
(* a run its own id.  The text of a tool_use block is the characters of    *)
(* the string its input carries (command or path); "NUL" is the character  *)
(* U+0000.  is_error is FALSE in a block that has no is_error member.      *)
(***************************************************************************)
TextBlock ==
  [type |-> "text", id |-> 0, name |-> <<>>, text |-> <<"text">>, is_error |-> FALSE]

ThinkingBlock ==
  [type |-> "thinking", id |-> 0, name |-> <<>>, text |-> <<"thought">>, is_error |-> FALSE]

ToolUse(id, name) ==
  [type |-> "tool_use", id |-> id, name |-> name, text |-> <<>>, is_error |-> FALSE]

ToolResult(id, text) ==
  [type |-> "tool_result", id |-> id, name |-> <<>>, text |-> text, is_error |-> FALSE]

BlockOf(kind, id) ==
  IF kind = <<"text">> THEN TextBlock
  ELSE IF kind = <<"thinking">> THEN ThinkingBlock
  ELSE ToolUse(id, kind)

ResponseOf(t, kinds, nul, stop) ==
  [content |-> [i \in 1..Len(kinds) |->
                  IF i \in nul
                  THEN [BlockOf(kinds[i], 10 * t + i) EXCEPT !.text = <<"NUL">>]
                  ELSE BlockOf(kinds[i], 10 * t + i)],
   stop_reason |-> stop]

NoResponse == [content |-> <<>>, stop_reason |-> ""]

(***************************************************************************)
(* What the model service may answer on turn t.  On the first              *)
(* MaxVariedTurns turns every shape below; on later turns the shapes that  *)
(* end the run, and one shape that continues it.  nul is the positions of  *)
(* the blocks whose input string holds the character U+0000.               *)
(***************************************************************************)
MaxVariedTurns == 1

EndingShapes ==
  { [kinds |-> <<<<"text">>>>, nul |-> {}, stop |-> "end_turn"],
    [kinds |-> <<>>, nul |-> {}, stop |-> "max_tokens"],
    [kinds |-> <<<<"text">>, <<"bash">>>>, nul |-> {}, stop |-> "end_turn"] }

DefaultShape == [kinds |-> <<<<"bash">>>>, nul |-> {}, stop |-> "tool_use"]

VariedShapes ==
  { [kinds |-> <<<<"text">>, <<"mcp_", "x">>, <<"nope">>>>, nul |-> {}, stop |-> "tool_use"],
    [kinds |-> <<<<"thinking">>, <<"read_file">>>>, nul |-> {}, stop |-> "max_tokens"],
    [kinds |-> <<<<"bash">>>>, nul |-> {1}, stop |-> "tool_use"],
    [kinds |-> <<<<"mcp_", "mcp_", "x">>>>, nul |-> {}, stop |-> "tool_use"] }

Shapes(t) ==
  EndingShapes \cup {DefaultShape} \cup (IF t <= MaxVariedTurns THEN VariedShapes ELSE {})

Responses(t) == {ResponseOf(t, sh.kinds, sh.nul, sh.stop) : sh \in Shapes(t)}

(***************************************************************************)
(* What a built-in executor that runs asynchronously may return, lines     *)
(* 298-364.                                                                *)
(***************************************************************************)
AsyncBuiltins == {<<"bash">>, <<"read_file">>, <<"write_file">>, <<"list_files">>}

BuiltinResults(name, t) ==
  IF name = <<"bash">>
  THEN {<<"Exit code:", "0", "output">>} \cup
       (IF t <= MaxVariedTurns THEN {<<"Exit code:", "1", "output">>} ELSE {})
  ELSE IF name = <<"read_file">>
  THEN {<<"content">>, <<"Error reading file:", "ENOENT">>}
  ELSE IF name = <<"write_file">>
  THEN {<<"Successfully wrote to", "path">>, <<"Error writing file:", "EACCES">>}
  ELSE {<<"listing">>}

(***************************************************************************)
(* executeBash, lines 300-304: spawn validates its arguments before it     *)
(* starts the process and throws on a string that holds U+0000.  The throw *)
(* happens in the promise executor, so the promise rejects; the bash and   *)
(* list_files cases of executeBuiltinTool (lines 339-342, 359-364) await   *)
(* it outside any try.                                                     *)
(***************************************************************************)
SpawnThrows(block) ==
  /\ block.name \in {<<"bash">>, <<"list_files">>}
  /\ \E i \in 1..Len(block.text) : block.text[i] = "NUL"

(***************************************************************************)
(* BUILTIN_TOOLS, lines 230-296: the names, in order.                      *)
(***************************************************************************)
BUILTIN_TOOLS == <<<<"bash">>, <<"read_file">>, <<"write_file">>, <<"list_files">>>>

(***************************************************************************)
(* runAgent, lines 419-427: the remote tools under their prefixed names,   *)
(* after the built-in ones.  tools is the names the child listed.          *)
(***************************************************************************)
RegisteredNameBare(name) == name

RegisteredName(name) == <<"mcp_">> \o name

mcpToolsFormatted(tools) == [i \in 1..Len(tools) |-> RegisteredName(<<tools[i]>>)]

MergedTools(tools) == BUILTIN_TOOLS \o mcpToolsFormatted(tools)

(***************************************************************************)
(* listTools, lines 208-211, after its request settled: it throws when the *)
(* request was rejected and when the response had no result.               *)
(***************************************************************************)
listToolsThrowsNever(c) == FALSE

listToolsThrows(c) == ~(c.state = "resolved" /\ c.value # <<"undefined">>)

(***************************************************************************)
(* process.exit(1), and the operator-visible reports.                      *)
(***************************************************************************)
exit1(s, report) ==
  [s EXCEPT !.pc = "exited", !.exitCode = 1, !.log = Append(@, report)]

(***************************************************************************)
(* runAgent, lines 519-524: after the loop.                                *)
(***************************************************************************)
ReportsMaxTurnsStrict(t) == t > MAX_TURNS

ReportsMaxTurns(t) == t >= MAX_TURNS

Cleanup(s) ==
  LET c == close(s)
  IN [c EXCEPT !.pc = "finished", !.exitCode = 0,
               !.log = IF ReportsMaxTurns(s.turn) THEN Append(@, "Max turns reached") ELSE @]

(***************************************************************************)
(* runAgent, lines 433-445: the loop guard, the turn increment and the     *)
(* model call.                                                             *)
(***************************************************************************)
TurnIncrementPerBlock(s) == s.turn + 1 + Len(s.toolResults)

TurnIncrement(s) == s.turn + 1

RequestOfToolsAnnounced(s) ==
  [tools |-> IF \E i \in 1..Len(s.handled) : s.handled[i].member = "M"
             THEN BUILTIN_TOOLS ELSE s.allTools,
   messages |-> s.messages]

RequestOf(s) == [tools |-> s.allTools, messages |-> s.messages]

LoopHead(s) ==
  IF s.turn < MAX_TURNS
  THEN [s EXCEPT !.turn = TurnIncrement(s), !.modelCalls = @ + 1, !.pc = "model",
                 !.lastRequest = RequestOf(s),
                 !.response = NoResponse, !.blockIdx = 0, !.toolResults = <<>>]
  ELSE Cleanup(s)

(***************************************************************************)
(* runAgent, lines 507-511: the tool_result of the block at blockIdx.      *)
(***************************************************************************)
PushResultFirstBlock(s, text) ==
  [s EXCEPT !.toolResults = Append(@, ToolResult(s.response.content[1].id, text)),
            !.blockIdx = @ + 1]

PushResultInFront(s, text) ==
  [s EXCEPT !.toolResults = <<ToolResult(s.response.content[s.blockIdx].id, text)>> \o @,
            !.blockIdx = @ + 1]

PushResult(s, text) ==
  [s EXCEPT !.toolResults = Append(@, ToolResult(s.response.content[s.blockIdx].id, text)),
            !.blockIdx = @ + 1]

(***************************************************************************)
(* runAgent, lines 479-516: the loop over the blocks from blockIdx on, up  *)
(* to the next await; after the last block the results are appended and    *)
(* the while loop goes round.                                              *)
(***************************************************************************)
IsMcpName(name) == name # <<>> /\ Head(name) = "mcp_"

(***************************************************************************)
(* runAgent, line 485: block.name.slice(4).                                *)
(***************************************************************************)
mcpToolNameWhole(name) == name

mcpToolName(name) == Tail(name)

RECURSIVE ExecFrom(_)
ExecFrom(s) ==
  IF s.blockIdx > Len(s.response.content)
  THEN LoopHead([s EXCEPT !.messages =
                    Append(@, [role |-> "user", content |-> s.toolResults])])
  ELSE LET block == s.response.content[s.blockIdx]
       IN IF block.type # "tool_use"
          THEN ExecFrom([s EXCEPT !.blockIdx = @ + 1])
          ELSE LET d == [s EXCEPT !.dispatched = Append(@, block.id)]
               IN IF IsMcpName(block.name)
                  THEN [callTool(d, mcpToolName(block.name)) EXCEPT
                          !.pc = "mcpTool", !.awaited = Len(s.calls) + 1]
                  ELSE IF block.name \in AsyncBuiltins
                  THEN IF SpawnThrows(block)
                       THEN exit1(d, "Agent error")
                       ELSE [d EXCEPT !.pc = "builtin"]
                  ELSE ExecFrom(PushResult(d, <<"Unknown tool:">> \o block.name))

(***************************************************************************)
(* runAgent, lines 447-475: the response is processed.                     *)
(***************************************************************************)
AssistantContent(resp) ==
  SelectSeq(resp.content, LAMBDA b : b.type \in {"text", "tool_use"})

HasToolUse(resp) == \E i \in 1..Len(resp.content) : resp.content[i].type = "tool_use"

CompletesOnEndTurnOnly(resp) == resp.stop_reason = "end_turn"

Completes(resp) == ~HasToolUse(resp) \/ resp.stop_reason = "end_turn"

\* A loop that keeps only the prompt and the latest exchange.
OnResponseKeepsLatest(s, resp) ==
  LET a == [s EXCEPT !.response = resp,
                     !.messages = <<s.messages[1], [role |-> "assistant",
                                                    content |-> AssistantContent(resp)]>>]
  IN IF Completes(resp)
     THEN Cleanup([a EXCEPT !.log = Append(@, "Agent completed")])
     ELSE ExecFrom([a EXCEPT !.toolResults = <<>>, !.blockIdx = 1])

OnResponse(s, resp) ==
  LET a == [s EXCEPT !.response = resp,
                     !.messages = Append(@, [role |-> "assistant",
                                             content |-> AssistantContent(resp)])]
  IN IF Completes(resp)
     THEN Cleanup([a EXCEPT !.log = Append(@, "Agent completed")])
     ELSE ExecFrom([a EXCEPT !.toolResults = <<>>, !.blockIdx = 1])

(***************************************************************************)
(* runAgent, lines 486-493: the text of a settled callTool.                *)
(***************************************************************************)
McpResultText(c) ==
  IF c.state = "resolved" /\ c.value # <<"undefined">>
  THEN <<"result">> \o c.value
  ELSE IF c.state = "resolved"
  THEN <<"MCP tool error:", "TypeError">>
  ELSE <<"MCP tool error:">> \o c.value

(***************************************************************************)
(* The state before runAgent runs: new McpClient() of lines 99-104 and the *)
(* locals of runAgent not yet set.                                         *)
(***************************************************************************)
Init ==
  /\ process = "null"
  /\ requestId = 0
  /\ pendingRequests = [i \in {} |-> 0]
  /\ buffer = <<>>
  /\ timers = <<>>
  /\ stdin = <<>>
  /\ calls = <<>>
  /\ connectPc = "none"
  /\ killed = 0
  /\ received = <<>>
  /\ handled = <<>>
  /\ pc = "init"
  /\ turn = 0
  /\ messages = <<>>
  /\ response = NoResponse
  /\ blockIdx = 0
  /\ toolResults = <<>>
  /\ awaited = 0
  /\ modelCalls = 0
  /\ dispatched = <<>>
  /\ log = <<>>
  /\ exitCode = -1
  /\ allTools = <<>>
  /\ childExit = "running"
  /\ lastRequest = [tools |-> <<>>, messages |-> <<>>]

Prompt ==
  [role |-> "user",
   content |-> <<[type |-> "text", id |-> 0, name |-> <<>>, text |-> <<"prompt">>,
                  is_error |-> FALSE]>>]

SettledWithoutWaiting(k) == TRUE

Settled(k) == calls[k].state # "pending"

(***************************************************************************)
(* runAgent, lines 371-407: validation, setup and connect up to its await. *)
(***************************************************************************)
StartupOutcomes ==
  {"ok", "Missing required environment variables",
   "Failed to setup MCP server", "Failed to connect to MCP server"}

\* A start-up that spawns the child before it looks at the credentials.
validateAfterSpawn(s, o) ==
  IF o = "ok"
  THEN [connectStart(s) EXCEPT !.pc = "connect", !.awaited = 1]
  ELSE exit1(connectStart(s), o)

\* Lines 376-407: the credentials are looked at first, then the server is
\* set up, then connect() runs up to its await; each failure ends the run.
startRun(s, o) ==
  IF o = "ok"
  THEN [connectStart(s) EXCEPT !.pc = "connect", !.awaited = 1]
  ELSE exit1(s, o)

StartRun ==
  /\ pc = "init"
  /\ connectPc = "none"
  /\ \E o \in StartupOutcomes : Becomes(startRun(Cur, o))

(***************************************************************************)
(* runAgent, lines 402-417: connect returned or threw; listTools is        *)
(* called.                                                                 *)
(***************************************************************************)
AfterConnect ==
  /\ pc = "connect"
  /\ Settled(awaited)
  /\ LET c == connectResume(Cur)
     IN IF c.connectPc = "failed"
        THEN Becomes(exit1(c, "Failed to connect to MCP server"))
        ELSE Becomes([sendRequest(c, "tools/list") EXCEPT
                        !.pc = "listTools", !.awaited = Len(c.calls) + 1])

(***************************************************************************)
(* runAgent, lines 410-434: listTools returned or threw; the conversation  *)
(* starts.                                                                 *)
(***************************************************************************)
AfterListTools ==
  /\ pc = "listTools"
  /\ Settled(awaited)
  /\ IF listToolsThrows(calls[awaited])
     THEN Becomes(exit1(Cur, "Failed to list MCP tools"))
     ELSE Becomes(LoopHead([Cur EXCEPT !.messages = <<Prompt>>,
                                       !.allTools = MergedTools(calls[awaited].value)]))

(***************************************************************************)
(* runAgent, lines 440-517: the model service answers.                     *)
(***************************************************************************)
ModelResponds ==
  /\ pc = "model"
  /\ \E r \in Responses(turn) : Becomes(OnResponse(Cur, r))

(***************************************************************************)
(* Lines 553-556: the model call throws, runAgent rejects.                 *)
(***************************************************************************)
ModelFails ==
  /\ pc = "model"
  /\ Becomes(exit1(Cur, "Agent error"))

(***************************************************************************)
(* runAgent, lines 486-516: callTool returned or threw.                    *)
(***************************************************************************)
AfterMcpTool ==
  /\ pc = "mcpTool"
  /\ Settled(awaited)
  /\ Becomes(ExecFrom(PushResult(Cur, McpResultText(calls[awaited]))))

(***************************************************************************)
(* runAgent, lines 496-516: executeBuiltinTool returned.                   *)
(***************************************************************************)
BuiltinDone ==
  /\ pc = "builtin"
  /\ \E out \in BuiltinResults(response.content[blockIdx].name, turn) :
       Becomes(ExecFrom(PushResult(Cur, out)))

(***************************************************************************)
(* A timer fires.  Every timer has the same delay (30000 ms, line 204), so *)
(* the timers fire in the order in which they were armed.                  *)
(***************************************************************************)
TimerFires ==
  /\ exitCode # 1
  /\ timers # <<>>
  /\ Becomes([TimeoutCallback(Cur, Head(timers)) EXCEPT !.timers = Tail(timers)])

(***************************************************************************)
(* The child answers a request it was sent with one response line, in one  *)
(* chunk.                                                                  *)
(***************************************************************************)
ChildResponds ==
  /\ exitCode # 1
  /\ childExit = "running"
  /\ \E id \in DOMAIN pendingRequests, member \in {"R", "E"} :
       Becomes(onStdoutData(Cur, ResponseLine(id, member, <<"a">>)))

Next ==
  \/ StartRun
  \/ AfterConnect
  \/ AfterListTools
  \/ ModelResponds
  \/ ModelFails
  \/ AfterMcpTool
  \/ BuiltinDone
  \/ TimerFires
  \/ ChildResponds

Spec == Init /\ [][Next]_vars

(***************************************************************************)
(* The runs in which the script itself goes on when it can, every model    *)
(* call returns or throws, and every timer that was armed fires.  Nothing  *)
(* is assumed of the child, nor of the commands that the built-in tools    *)
(* run: executeBash (299-334) returns when its command ends and arms no    *)
(* timer.                                                                  *)
(***************************************************************************)
Continues == StartRun \/ AfterConnect \/ AfterListTools \/ AfterMcpTool

ModelReturns == ModelResponds \/ ModelFails

SpecLive ==
  /\ Init
  /\ [][Next]_vars
  /\ WF_vars(Continues)
  /\ WF_vars(ModelReturns)
  /\ WF_vars(TimerFires)

(***************************************************************************)
(* A run whose child changes its tools while the run goes on.  While it    *)
(* serves a tool call the child announces, once, that its tools have       *)
(* changed: a message with a method and no id, in one chunk.               *)
(***************************************************************************)
ChildNotifies ==
  /\ pc = "mcpTool"
  /\ childExit = "running"
  /\ \A i \in 1..Len(handled) : handled[i].member # "M"
  /\ Becomes(onStdoutData(Cur, <<"M", "a", "NL">>))

NextAnnounce ==
  \/ StartRun
  \/ AfterConnect
  \/ AfterListTools
  \/ ModelResponds
  \/ ModelFails
  \/ AfterMcpTool
  \/ BuiltinDone
  \/ TimerFires
  \/ ChildResponds
  \/ ChildNotifies

SpecAnnounce == Init /\ [][NextAnnounce]_vars

(***************************************************************************)
(* A client used directly: connect, then sendRequest calls in flight       *)
(* together, a child that writes lines with any id in any order.           *)
(***************************************************************************)
ClientConnect ==
  /\ pc = "init"
  /\ connectPc = "none"
  /\ Becomes(connectStart(Cur))

ClientConnectResume ==
  /\ pc = "init"
  /\ connectPc = "initialize"
  /\ Settled(1)
  /\ Becomes(connectResume(Cur))

ClientRequest ==
  /\ pc = "init"
  /\ process = "child"
  /\ Len(calls) < MaxCalls
  /\ \/ Becomes(sendRequest(Cur, "tools/list"))
     \/ Becomes(callTool(Cur, <<"a">>))

LinesIn(bytes) == Cardinality({i \in 1..Len(bytes) : bytes[i] = "NL"})

ClientLines ==
  {ResponseLine(id, member, <<>>) : id \in 1..MaxCalls, member \in {"R", "E"}}
    \cup {<<"a", "NL">>}

ChildWritesLine ==
  /\ connectPc # "none"
  /\ LinesIn(received) < MaxLines
  /\ \E line \in ClientLines : Becomes(onStdoutData(Cur, line))

NextClient ==
  \/ ClientConnect
  \/ ClientConnectResume
  \/ ClientRequest
  \/ ChildWritesLine
  \/ TimerFires

SpecClient == Init /\ [][NextClient]_vars

(***************************************************************************)
(* The framing: a client that connected, and a child that writes any bytes *)
(* in chunks of any size.                                                  *)
(***************************************************************************)
FramerBytes == {"1", "R", "L", "C", "SP", "NL"}

Chunks == SeqsUpTo(FramerBytes, MaxChunk) \ {<<>>}

ChildWritesBytes ==
  /\ connectPc # "none"
  /\ \E data \in Chunks :
       /\ Len(received) + Len(data) <= MaxStream
       /\ Becomes(onStdoutData(Cur, data))

NextFramer ==
  \/ ClientConnect
  \/ ClientConnectResume
  \/ ChildWritesBytes
  \/ TimerFires

SpecFramer == Init /\ [][NextFramer]_vars

(***************************************************************************)
(* A client used directly with a child that answers the requests it was    *)
(* sent, stays silent, or exits.  A timer that is armed fires: the event   *)
(* loop runs the callback of every setTimeout while the process lives.     *)
(***************************************************************************)
ChildPayloads(member) ==
  IF member = "R" THEN {<<"a">>, <<"isError", "a">>} ELSE {<<"a">>}

ChildAnswers ==
  /\ exitCode # 1
  /\ childExit = "running"
  /\ \E id \in DOMAIN pendingRequests, member \in {"R", "E", "N"} :
       \E text \in ChildPayloads(member) :
         Becomes(onStdoutData(Cur, ResponseLine(id, member, text)))

ChildExits ==
  /\ connectPc # "none"
  /\ childExit = "running"
  /\ \E code \in {"0", "1", "null"} : Becomes(onClose(Cur, code))

(***************************************************************************)
(* close is called on a client that never connected, that connected, or    *)
(* that was closed before.                                                 *)
(***************************************************************************)
ClientClose ==
  /\ pc = "init"
  /\ connectPc # "initialize"
  /\ Becomes(close(Cur))

NextChild ==
  \/ ClientConnect
  \/ ClientConnectResume
  \/ ClientRequest
  \/ ClientClose
  \/ ChildAnswers
  \/ ChildExits
  \/ TimerFires

SpecChild == Init /\ [][NextChild]_vars /\ WF_vars(TimerFires)

(***************************************************************************)
(* The start of a run with a child that lists any tools: up to MaxTools    *)
(* tools with different names, the names of built-in tools among them.     *)
(***************************************************************************)
MaxTools == 2

RemoteToolNames == {"a", "bash", "read_file", "list_files"}

ToolLists ==
  {l \in SeqsUpTo(RemoteToolNames, MaxTools) :
     \A i, j \in 1..Len(l) : i # j => l[i] # l[j]}

ChildListsTools ==
  /\ exitCode # 1
  /\ childExit = "running"
  /\ \E id \in DOMAIN pendingRequests, member \in {"R", "E"} :
       \E text \in (IF member = "R" /\ calls[pendingRequests[id]].method = "tools/list"
                    THEN ToolLists ELSE {<<"a">>}) :
         Becomes(onStdoutData(Cur, ResponseLine(id, member, text)))

NextTools ==
  \/ StartRun
  \/ AfterConnect
  \/ AfterListTools
  \/ ChildListsTools
  \/ TimerFires

SpecTools == Init /\ [][NextTools]_vars

(***************************************************************************)
(* The client with a child that writes any message: a response to any id,  *)
(* pending or not, a request of its own that carries an id, a notification *)
(* and a response without id.                                              *)
(***************************************************************************)
InboundLines ==
  {ResponseLine(id, member, <<>>) : id \in 1..MaxCalls, member \in {"R", "M"}}
    \cup {<<"M", "NL">>, <<"R", "NL">>}

ChildSends ==
  /\ connectPc # "none"
  /\ LinesIn(received) < MaxLines
  /\ \E line \in InboundLines : Becomes(onStdoutData(Cur, line))

NextInbound ==
  \/ ClientConnect
  \/ ClientConnectResume
  \/ ClientRequest
  \/ ChildSends
  \/ TimerFires

SpecInbound == Init /\ [][NextInbound]_vars

(***************************************************************************)
(* The client used in any order: requests before connect and after close,  *)
(* close while requests are pending.                                       *)
(***************************************************************************)
ClientRequestDetached ==
  /\ pc = "init"
  /\ process = "null"
  /\ Len(calls) < MaxCalls
  /\ \/ Becomes(sendRequest(Cur, "tools/list"))
     \/ Becomes(callTool(Cur, <<"a">>))

NextTeardown ==
  \/ ClientConnect
  \/ ClientConnectResume
  \/ ClientRequest
  \/ ClientRequestDetached
  \/ ClientClose
  \/ ChildAnswers
  \/ TimerFires

SpecTeardown == Init /\ [][NextTeardown]_vars

(***************************************************************************)
(* The start of a run with a child that writes to stderr and that ends, by *)
(* itself or by a signal, at any moment.  MaxStderr bounds the reports.    *)
(***************************************************************************)
MaxStderr == 1

StderrChunks == {<<"a">>, <<"error">>, <<"a", "Error">>, <<"ERROR", "a">>}

StderrReports == Cardinality({i \in 1..Len(log) : log[i] = "[MCP]"})

ChildWritesStderr ==
  /\ exitCode # 1
  /\ connectPc # "none"
  /\ childExit = "running"
  /\ StderrReports < MaxStderr
  /\ \E chunk \in StderrChunks : Becomes(onStderrData(Cur, chunk))

ChildExitsInRun ==
  /\ exitCode # 1
  /\ ChildExits

NextStderr ==
  \/ StartRun
  \/ AfterConnect
  \/ AfterListTools
  \/ ChildListsTools
  \/ ChildWritesStderr
  \/ ChildExitsInRun
  \/ TimerFires

SpecStderr == Init /\ [][NextStderr]_vars

(***************************************************************************)
(* Properties.                                                             *)
(***************************************************************************)
CallIdx == 1..Len(calls)

TimerArmed(k) == \E i \in 1..Len(timers) : timers[i].call = k

HandledIds == {handled[i].id : i \in 1..Len(handled)}

\* C1: a call settled by a response was settled by a response line whose id is
\* the call's own id, whatever the order of the lines on stdout: it rejected with
\* that line's error message or resolved with that line's result.
ResponseCorrelation ==
  \A k \in CallIdx :
    calls[k].via = "response" =>
      /\ calls[k].respId = calls[k].id
      /\ \E i \in 1..Len(handled) :
           /\ handled[i].id = calls[k].id
           /\ IF handled[i].member = "E"
              THEN calls[k].state = "rejected" /\ calls[k].value = handled[i].text
              ELSE calls[k].state = "resolved" /\ calls[k].value = handled[i].text

\* Two calls were in flight together and the response to the second one arrived
\* first; each was settled by a response.
OutOfOrderResponses ==
  /\ Len(calls) >= 2
  /\ Len(handled) = 2
  /\ handled[1].id = 2
  /\ handled[2].id = 1
  /\ calls[1].via = "response"
  /\ calls[2].via = "response"
  /\ calls[1].state # calls[2].state

\* C2: however the stream was cut into chunks, the messages handled are those
\* of the whole stream delivered as one chunk (the claim says the same of the
\* retained partial line, which differs even earlier).
ChunkBoundaryIndependent ==
  LET one == onStdoutData([Cur EXCEPT !.buffer = <<>>, !.received = <<>>,
                                      !.handled = <<>>], received)
  IN handled = one.handled

\* C3: a call whose timer has fired and whose id was in no message of the child
\* is rejected with the timeout error that names its method, and the pending map
\* has no entry for its id.
TimeoutRejects ==
  \A k \in CallIdx :
    (~TimerArmed(k) /\ calls[k].id \notin HandledIds) =>
      /\ calls[k].state = "rejected"
      /\ calls[k].via = "timeout"
      /\ calls[k].value = TimeoutError(calls[k].method)
      /\ calls[k].id \notin DOMAIN pendingRequests

\* A tools/call request timed out while the child answered another request.
TimedOutCall ==
  /\ Len(calls) >= 2
  /\ calls[2].method = "tools/call"
  /\ calls[2].via = "timeout"
  /\ calls[1].via = "response"

\* C4: resolve and reject are called at most once for every call, and exactly
\* once for a call that has left the pending map; a call is in the pending map
\* exactly while it is unsettled.
SettledOnce ==
  \A k \in CallIdx :
    /\ calls[k].settles <= 1
    /\ (calls[k].settles = 1) = (calls[k].state # "pending")
    /\ (calls[k].state = "pending") =
         (calls[k].id \in DOMAIN pendingRequests /\ pendingRequests[calls[k].id] = k)

\* The response to call 1 arrived after its timeout, and the timer of call 2
\* fired after its response.
LateResponseAndLateTimer ==
  /\ Len(calls) >= 2
  /\ calls[1].via = "timeout"
  /\ 1 \in HandledIds
  /\ calls[2].via = "response"
  /\ timers = <<>>

\* C5: the ids of successive calls increase strictly; every entry of the pending
\* map is the entry of the one unsettled call with that id, and every unsettled
\* call still has its entry (no timer of an earlier call removed it).
IdsNeverReused ==
  /\ \A i, j \in CallIdx : i < j => calls[i].id < calls[j].id
  /\ \A id \in DOMAIN pendingRequests :
       /\ pendingRequests[id] \in CallIdx
       /\ calls[pendingRequests[id]].id = id
  /\ \A k \in CallIdx :
       calls[k].state = "pending" =>
         /\ calls[k].id \in DOMAIN pendingRequests
         /\ pendingRequests[calls[k].id] = k

\* The timers of the first two requests fired while the third request was
\* pending.
EarlierTimersFiredWhileLaterPending ==
  /\ Len(calls) = 3
  /\ calls[3].state = "pending"
  /\ Len(timers) = 1

ToolUseIds(content) ==
  {content[i].id : i \in {j \in 1..Len(content) : content[j].type = "tool_use"}}

ResultIds(content) ==
  {content[i].id : i \in {j \in 1..Len(content) : content[j].type = "tool_result"}}

Reported(what) == \E i \in 1..Len(log) : log[i] = what

\* C6: a run reports completion only on a response without tool_use blocks: a
\* response with tool_use blocks has them executed whatever its stop reason.
ToolUseIsAuthoritative ==
  Reported("Agent completed") => ~HasToolUse(response)

AssistantIdx == {i \in 1..Len(messages) : messages[i].role = "assistant"}

ResultCount(id) ==
  Cardinality({p \in UNION {{<<i, j>> : j \in 1..Len(messages[i].content)} :
                                i \in 1..Len(messages)} :
                 /\ messages[p[1]].content[p[2]].type = "tool_result"
                 /\ messages[p[1]].content[p[2]].id = id})

\* C7: while a model call is outstanding every tool_use block of every assistant
\* message has exactly one tool_result in the history, in the message after it;
\* and at all times a tool_result answers a tool_use of the message before it.
EveryInvocationAnswered ==
  /\ pc = "model" =>
       \A i \in AssistantIdx : \A id \in ToolUseIds(messages[i].content) :
         /\ i < Len(messages)
         /\ id \in ResultIds(messages[i + 1].content)
         /\ ResultCount(id) = 1
  /\ \A i \in 2..Len(messages) :
       messages[i].role = "user" =>
         /\ messages[i - 1].role = "assistant"
         /\ ResultIds(messages[i].content) \subseteq ToolUseIds(messages[i - 1].content)

\* The second model call is outstanding after a turn with two invocations.
TwoInvocationsAnswered ==
  /\ pc = "model"
  /\ turn = 2
  /\ Cardinality(ToolUseIds(messages[2].content)) = 2

\* C8: "Max turns reached" is never reported for a run that completed.
MaxTurnsOnlyWhenTruncated ==
  Reported("Max turns reached") => ~Reported("Agent completed")

\* C9 as stated: when the run ends on the turn budget with a response that asks
\* for tools, none of that response's invocations was executed.
MaxTurnsSkipsPendingInvocations ==
  (pc = "finished" /\ Reported("Max turns reached") /\ ~Reported("Agent completed")) =>
    \A i \in 1..Len(dispatched) : dispatched[i] \notin ToolUseIds(response.content)

\* C9 as amended: when the run has ended after the response of turn MAX_TURNS
\* asked for tools without saying end_turn, every invocation of that response
\* was executed and is answered in the last message of the history, "Max turns
\* reached" was reported, completion was not, and no further model call was made.
MaxTurnsAfterExecutingInvocations ==
  (pc = "finished" /\ turn = MAX_TURNS /\ HasToolUse(response)
     /\ response.stop_reason # "end_turn") =>
    /\ Reported("Max turns reached")
    /\ ~Reported("Agent completed")
    /\ modelCalls = MAX_TURNS
    /\ \A id \in ToolUseIds(response.content) :
         /\ \E i \in 1..Len(dispatched) : dispatched[i] = id
         /\ id \in ResultIds(Last(messages).content)

\* The run ended after the response of turn MAX_TURNS asked for a tool.
EndedOnTurnBudget ==
  /\ pc = "finished"
  /\ turn = MAX_TURNS
  /\ HasToolUse(response)
  /\ response.stop_reason # "end_turn"

\* C10: the turn counter is 0 until the first model call, equals the number of
\* model calls made, and never exceeds MAX_TURNS.
TurnAccounting ==
  /\ turn = modelCalls
  /\ turn >= 0
  /\ turn <= MAX_TURNS
  /\ pc \in {"init", "connect", "listTools"} => turn = 0

\* The second model call was made after a turn with two tool invocations.
SecondCallAfterTwoInvocations ==
  /\ pc = "model"
  /\ turn = 2
  /\ Len(dispatched) = 2

ResultBlocks ==
  UNION {{messages[i].content[j] : j \in {n \in 1..Len(messages[i].content) :
                                            messages[i].content[n].type = "tool_result"}} :
           i \in 1..Len(messages)}

\* C11: tool dispatch is total: whenever the run has ended, every invocation
\* whose execution was started has its tool_result in the history, whatever the
\* tool and whatever the input (no exception of an executor ended the run).
DispatchIsTotal ==
  pc \in {"finished", "exited"} =>
    \A i \in 1..Len(dispatched) :
      \E b \in ResultBlocks : b.id = dispatched[i]

\* C12: every tool_result that answers a failed tool call (callTool threw: the
\* child's error response, or the timeout of a child that never answered) is
\* marked is_error.
FailureMarkedIsError ==
  \A b \in ResultBlocks :
    (b.text # <<>> /\ Head(b.text) = "MCP tool error:") => b.is_error

\* C13: the first message written to the child is the initialize request; the
\* initialized notification is the second one and is written only after the
\* initialize request was resolved by its response; every tools/list and
\* tools/call request is written after the notification.
HandshakeOrder ==
  /\ stdin # <<>> => (stdin[1].method = "initialize" /\ stdin[1].id = 1)
  /\ \A i \in 1..Len(stdin) :
       /\ stdin[i].method = "initialize" => i = 1
       /\ stdin[i].method = "notifications/initialized" =>
            /\ i = 2
            /\ stdin[i].id = 0
            /\ calls[1].state = "resolved"
            /\ calls[1].via = "response"
       /\ stdin[i].method \in {"tools/list", "tools/call"} =>
            /\ i >= 3
            /\ stdin[2].method = "notifications/initialized"

\* The handshake is complete and a tools/call request was written after the
\* tools/list request.
ToolCallAfterHandshake ==
  /\ Len(stdin) >= 4
  /\ stdin[3].method = "tools/list"
  /\ stdin[4].method = "tools/call"

StartupReports ==
  {"Missing required environment variables", "Failed to setup MCP server",
   "Failed to connect to MCP server", "Failed to list MCP tools"}

StartupFailed ==
  \/ \E what \in StartupReports : Reported(what)
  \/ Len(calls) >= 1 /\ calls[1].state = "rejected"
  \/ Len(calls) >= 2 /\ calls[2].state = "rejected"

\* C14: when the child cannot be started, or the initialize request or the
\* tools/list request is answered with an error or times out, no model call is
\* ever made and the run ends by exiting with code 1; a model call is made only
\* after both requests were resolved.
StartupFailureIsFatal ==
  /\ StartupFailed =>
       /\ modelCalls = 0
       /\ messages = <<>>
       /\ pc \in {"connect", "listTools", "exited"}
       /\ pc = "exited" => exitCode = 1
  /\ modelCalls > 0 =>
       /\ Len(calls) >= 2
       /\ calls[1].state = "resolved"
       /\ calls[2].method = "tools/list"
       /\ calls[2].state = "resolved"

\* The tools/list request timed out after a successful handshake and the run
\* exited without a model call.
ListToolsTimedOut ==
  /\ pc = "exited"
  /\ Len(calls) = 2
  /\ calls[1].state = "resolved"
  /\ calls[2].via = "timeout"
  /\ Reported("Failed to list MCP tools")
  /\ modelCalls = 0

\* C15: whenever the run has ended after the child was spawned, close was
\* called: the child was sent the kill signal and the handle is cleared.
ChildDestroyedOnEveryExit ==
  (pc \in {"finished", "exited"} /\ connectPc # "none") =>
    (process = "null" /\ killed >= 1)

\* C16: every call is eventually settled, whether the child answers, stays
\* silent or exits; and the child's exit itself settles no call and removes no
\* entry of the pending map.
NoCallWaitsForever ==
  /\ \A k \in 1..MaxCalls :
       (Len(calls) >= k) ~> (Len(calls) >= k /\ calls[k].state # "pending")
  /\ [][childExit' # childExit =>
          (calls' = calls /\ pendingRequests' = pendingRequests)]_vars

\* The child answered the first call and exited with a nonzero code; the second
\* call was settled by its timeout.
TimedOutAroundChildExit ==
  /\ childExit = "1"
  /\ Reported("[MCP process closed with code]")
  /\ Len(calls) >= 2
  /\ calls[1].via = "response"
  /\ calls[2].via = "timeout"

McpInvocations ==
  UNION {{messages[i].content[j] : j \in {n \in 1..Len(messages[i].content) :
                                            /\ messages[i].content[n].type = "tool_use"
                                            /\ IsMcpName(messages[i].content[n].name)}} :
           i \in AssistantIdx}

IsDispatched(id) == \E k \in 1..Len(dispatched) : dispatched[k] = id

DispatchPos(id) == CHOOSE k \in 1..Len(dispatched) : dispatched[k] = id

ToolCallRequests == SelectSeq(stdin, LAMBDA m : m.method = "tools/call")

NameInvoked(content, id) ==
  (CHOOSE b \in {content[n] : n \in 1..Len(content)} : b.type = "tool_use" /\ b.id = id).name

AnsweredByName(n, text) ==
  IF IsMcpName(n) THEN Head(text) \in {"result", "MCP tool error:"}
  ELSE IF n \in AsyncBuiltins THEN text \in BuiltinResults(n, 1)
  ELSE text = <<"Unknown tool:">> \o n

\* C17: the tools/call requests written to the child are, in order, those of
\* the executed invocations whose name starts with "mcp_", each naming the tool
\* by the invocation's name without that prefix; an invocation with any other
\* name is answered by the built-in executor of exactly that name, and with
\* "Unknown tool:" and the name when there is none.
PrefixDispatch ==
  LET mcp == {b \in McpInvocations : IsDispatched(b.id)}
      rank(b) == Cardinality({c \in mcp : DispatchPos(c.id) <= DispatchPos(b.id)})
  IN /\ Len(ToolCallRequests) = Cardinality(mcp)
     /\ \A b \in mcp : <<"mcp_">> \o ToolCallRequests[rank(b)].name = b.name
     /\ \A i \in 2..Len(messages) :
          messages[i].role = "user" =>
            \A j \in 1..Len(messages[i].content) :
              AnsweredByName(NameInvoked(messages[i - 1].content, messages[i].content[j].id),
                             messages[i].content[j].text)
     /\ pc \in {"mcpTool", "builtin"} =>
          \A j \in 1..Len(toolResults) :
            AnsweredByName(NameInvoked(response.content, toolResults[j].id),
                           toolResults[j].text)

\* The remote tool x was called for the invocation of mcp_x, and the invocation
\* of the unknown name was answered.
RemoteAndUnknownDispatched ==
  /\ \E i \in 1..Len(stdin) : stdin[i].method = "tools/call" /\ stdin[i].name = <<"x">>
  /\ \E b \in ResultBlocks : b.text = <<"Unknown tool:", "nope">>

\* C18: the names of the merged tool set are pairwise different, and no name
\* that came from the child's list equals the name of a built-in tool, whatever
\* names the child listed.
MergedNamesUnique ==
  /\ \A i, j \in 1..Len(allTools) : i # j => allTools[i] # allTools[j]
  /\ \A j \in 1..Len(allTools) :
       j > Len(BUILTIN_TOOLS) => allTools[j] \notin AsyncBuiltins
  /\ allTools # <<>> => SubSeq(allTools, 1, Len(BUILTIN_TOOLS)) = BUILTIN_TOOLS

\* The child listed a tool named bash and the conversation started.
RemoteToolNamedBash ==
  /\ pc = "model"
  /\ \E j \in 1..Len(allTools) : allTools[j] = <<"mcp_", "bash">>

ReceivedLines == Front(split(received))

GoodLines == SelectSeq(ReceivedLines, LAMBDA l : JSONparse(toString(l)).ok)

\* C19: the messages handled are, in order, those of the well-formed lines of
\* the stream, whatever malformed or blank lines stand between them; the first
\* call is settled by a response only if a well-formed line carried its id, and
\* is not pending once such a line has arrived.
MalformedLinesDropped ==
  /\ Len(handled) = Len(GoodLines)
  /\ \A i \in 1..Len(handled) :
       /\ handled[i].id = JSONparse(toString(GoodLines[i])).id
       /\ handled[i].member = JSONparse(toString(GoodLines[i])).member
  /\ Len(calls) >= 1 =>
       /\ calls[1].via = "response" => 1 \in HandledIds
       /\ 1 \in HandledIds => calls[1].state # "pending"
       /\ calls[1].state = "pending" => 1 \in DOMAIN pendingRequests

\* A malformed line that is not blank came before the response line of the
\* first call, which settled the call.
ResponseAfterMalformedLine ==
  /\ Len(calls) >= 1
  /\ calls[1].via = "response"
  /\ \E i, j \in 1..Len(ReceivedLines) :
       /\ i < j
       /\ trim(toString(ReceivedLines[i])) # <<>>
       /\ ~JSONparse(toString(ReceivedLines[i])).ok
       /\ JSONparse(toString(ReceivedLines[j])).ok
       /\ JSONparse(toString(ReceivedLines[j])).id = 1

\* C20: a settled tools/call request resolved with the result of its response,
\* a result that carries isError included, and rejected when its response
\* carried an error or when it timed out.
CallToolOutcome ==
  \A k \in CallIdx :
    (calls[k].method = "tools/call" /\ calls[k].state # "pending") =>
      IF calls[k].via = "timeout"
      THEN calls[k].state = "rejected" /\ calls[k].value = TimeoutError("tools/call")
      ELSE \E i \in 1..Len(handled) :
             /\ handled[i].id = calls[k].id
             /\ handled[i].member = "R" =>
                  (calls[k].state = "resolved" /\ calls[k].value = handled[i].text)
             /\ handled[i].member = "E" => calls[k].state = "rejected"

\* A tools/call request resolved with a result that carries isError.
ResolvedWithIsError ==
  \E k \in CallIdx :
    /\ calls[k].method = "tools/call"
    /\ calls[k].state = "resolved"
    /\ calls[k].value # <<>>
    /\ Head(calls[k].value) = "isError"

\* C21 as stated: a call settled by a response that carries an error member
\* was rejected, and a call settled by a response without one resolved with
\* the response's result.
ErrorMemberRejects ==
  \A k \in CallIdx :
    calls[k].via = "response" =>
      \A i \in 1..Len(handled) :
        handled[i].id = calls[k].id =>
          IF handled[i].member \in {"E", "N"}
          THEN calls[k].state = "rejected"
          ELSE calls[k].state = "resolved" /\ calls[k].value = handled[i].text

\* C21 as amended: a call settled by a response whose error member has a
\* truthy value was rejected with that error's message; a call settled by a
\* response with no error member, or with one whose value is falsy (null),
\* resolved with the response's result.
TruthyErrorRejects ==
  \A k \in CallIdx :
    calls[k].via = "response" =>
      \A i \in 1..Len(handled) :
        handled[i].id = calls[k].id =>
          IF handled[i].member = "E"
          THEN calls[k].state = "rejected" /\ calls[k].value = handled[i].text
          ELSE calls[k].state = "resolved" /\ calls[k].value = handled[i].text

\* A call was settled by a response that carries  "error":null  and a result.
SettledByNullError ==
  \E k \in CallIdx : \E i \in 1..Len(handled) :
    /\ handled[i].id = calls[k].id
    /\ handled[i].member = "N"
    /\ calls[k].via = "response"

\* C22: a tools/list request of a client whose initialize request failed never
\* resolves with a tool list.
ListToolsNeedsHandshake ==
  \A k \in CallIdx :
    (calls[k].method = "tools/list" /\ calls[1].state = "rejected") =>
      calls[k].state # "resolved"

InitializedMessages ==
  {i \in 1..Len(stdin) : stdin[i].method = "notifications/initialized"}

\* C23: the notification is written once, without an id; it has no call, no
\* timer and no entry of the pending map, and it does not advance the request
\* id: the counter, the calls and the messages with an id stay in step.
NotificationFireAndForget ==
  /\ requestId = Len(calls)
  /\ Cardinality({i \in 1..Len(stdin) : stdin[i].id # 0}) = Len(calls)
  /\ \A i \in InitializedMessages : stdin[i].id = 0
  /\ connectPc = "connected" => Cardinality(InitializedMessages) = 1
  /\ \A k \in CallIdx : calls[k].method # "notifications/initialized"
  /\ \A i \in 1..Len(timers) : timers[i].method # "notifications/initialized"
  /\ DOMAIN pendingRequests \subseteq {calls[k].id : k \in CallIdx}

\* The notification was written between two requests.
NotificationBetweenRequests ==
  /\ connectPc = "connected"
  /\ Len(stdin) = 3
  /\ stdin[2].method = "notifications/initialized"
  /\ stdin[3].id = 2
  /\ requestId = 2

\* C24: the child is signalled at most once; close applied twice gives the
\* state close applied once gives; close changes nothing on a client that is
\* closed already or that never connected.
CloseIdempotent ==
  /\ killed <= 1
  /\ close(close(Cur)) = close(Cur)
  /\ process = "null" => close(Cur) = Cur
  /\ connectPc = "none" => (killed = 0 /\ process = "null")

\* A connected client was closed while a request was pending.
ClosedWithPendingRequest ==
  /\ connectPc = "connected"
  /\ process = "null"
  /\ killed = 1
  /\ DOMAIN pendingRequests # {}

IdsOfType(content, type) ==
  LET sel == SelectSeq(content, LAMBDA b : b.type = type)
  IN [j \in 1..Len(sel) |-> sel[j].id]

\* C25: every user message after the prompt follows an assistant message and
\* holds nothing but tool_results, one for each tool_use block of that
\* assistant message, in the order of those blocks; no assistant message is
\* followed by another assistant message, and while a model call is outstanding
\* the last message of the history is a user message.
ResultsInInvocationOrder ==
  /\ \A i \in 2..Len(messages) :
       IF messages[i].role = "user"
       THEN /\ messages[i - 1].role = "assistant"
            /\ \A j \in 1..Len(messages[i].content) :
                 messages[i].content[j].type = "tool_result"
            /\ IdsOfType(messages[i].content, "tool_result")
                 = IdsOfType(messages[i - 1].content, "tool_use")
       ELSE messages[i - 1].role = "user"
  /\ pc = "model" => Last(messages).role = "user"

\* The results of a turn with two invocations were appended and the next model
\* call is outstanding.
TwoResultsAppended ==
  /\ pc = "model"
  /\ Len(messages) = 3
  /\ Len(messages[3].content) = 2

LastAssistant == messages[CHOOSE i \in AssistantIdx : \A j \in AssistantIdx : j <= i]

\* C26: the latest model call was given the merged tool set and the whole
\* history of the moment it was made, and the assistant message appended for
\* the response being processed holds every block of the response, in order.
ModelCallVerbatim ==
  /\ modelCalls > 0 =>
       /\ lastRequest.tools = allTools
       /\ Len(lastRequest.messages) = 2 * modelCalls - 1
       /\ lastRequest.messages = SubSeq(messages, 1, 2 * modelCalls - 1)
  /\ response # NoResponse => LastAssistant.content = response.content

ToolsListRequests == {i \in 1..Len(stdin) : stdin[i].method = "tools/list"}

\* C27: tools/list is requested at most once, and exactly once before the
\* first model call; the tool set given to every model call is the one merged
\* from the result of that request, whatever the child announces later.
ToolSetImmutable ==
  /\ Cardinality(ToolsListRequests) <= 1
  /\ modelCalls > 0 =>
       /\ ToolsListRequests = {3}
       /\ calls[2].method = "tools/list"
       /\ allTools = MergedTools(calls[2].value)
       /\ lastRequest.tools = MergedTools(calls[2].value)

\* The child announced a change of its tools and a model call was made after
\* that.
ModelCallAfterAnnouncement ==
  /\ pc = "model"
  /\ turn = 2
  /\ \E i \in 1..Len(handled) : handled[i].member = "M"

\* C28: when the first response holds no tool_use block, the run has finished
\* after that one model call: nothing was executed, no tools/call request was
\* written, completion was reported and "Max turns reached" was not.
FirstResponseWithoutToolsEnds ==
  (Len(messages) >= 2 /\ ToolUseIds(messages[2].content) = {}) =>
    /\ pc = "finished"
    /\ exitCode = 0
    /\ modelCalls = 1
    /\ Len(messages) = 2
    /\ dispatched = <<>>
    /\ ToolCallRequests = <<>>
    /\ Reported("Agent completed")
    /\ ~Reported("Max turns reached")

\* The first response was cut off at the token limit before any block.
EmptyFirstResponse ==
  /\ pc = "finished"
  /\ turn = 1
  /\ response.content = <<>>
  /\ response.stop_reason = "max_tokens"

BashInvocations ==
  UNION {{messages[i].content[j] : j \in {n \in 1..Len(messages[i].content) :
                                            /\ messages[i].content[n].type = "tool_use"
                                            /\ messages[i].content[n].name = <<"bash">>}} :
           i \in AssistantIdx}

Executing(id) ==
  /\ pc = "builtin"
  /\ response.content[blockIdx].id = id

\* C29: every bash invocation whose execution was started and is over has a
\* tool_result with its id whose text starts with the exit-code line, whatever
\* the exit code and whether or not the process could be spawned.
BashResultAppended ==
  \A b \in BashInvocations :
    (IsDispatched(b.id) /\ ~Executing(b.id)) =>
      \E r \in ResultBlocks \cup {toolResults[j] : j \in 1..Len(toolResults)} :
        /\ r.id = b.id
        /\ Head(r.text) = "Exit code:"

\* C30: at most one request is pending; while a model call is outstanding no
\* request is pending and no tool result is being collected; while a tool is
\* executing no model call is outstanding, and the only request that may be
\* pending is the one of the tool that is executing.
OneOutstanding ==
  /\ Cardinality(DOMAIN pendingRequests) <= 1
  /\ pc = "model" =>
       /\ modelCalls = Cardinality(AssistantIdx) + 1
       /\ DOMAIN pendingRequests = {}
       /\ toolResults = <<>>
  /\ pc \in {"mcpTool", "builtin"} =>
       /\ modelCalls = Cardinality(AssistantIdx)
       /\ response # NoResponse
  /\ pc = "mcpTool" => DOMAIN pendingRequests \subseteq {calls[awaited].id}
  /\ pc = "builtin" => DOMAIN pendingRequests = {}

\* A remote tool is executing: its request is the one pending request.
RemoteToolExecuting ==
  /\ pc = "mcpTool"
  /\ DOMAIN pendingRequests = {calls[awaited].id}
  /\ calls[awaited].method = "tools/call"

(***************************************************************************)
(* C31: the three credentials are validated before anything else: a run    *)
(* that reported a missing credential has ended with failure, its child    *)
(* was never spawned, no message was written to a child and no model call  *)
(* was made.                                                               *)
(***************************************************************************)
CredentialsCheckedFirst ==
  Reported("Missing required environment variables") =>
    /\ pc = "exited"
    /\ exitCode = 1
    /\ process = "null"
    /\ connectPc = "none"
    /\ killed = 0
    /\ stdin = <<>>
    /\ calls = <<>>
    /\ requestId = 0
    /\ modelCalls = 0
    /\ messages = <<>>

MissingCredentialReported ==
  /\ Reported("Missing required environment variables")
  /\ pc = "exited"
  /\ stdin = <<>>

(***************************************************************************)
(* C32: what the child writes to stderr and the exit code its close event  *)
(* reports are advisory: a step in which a stderr chunk is reported or the *)
(* child's end is noted leaves the pending map, the request-id counter,    *)
(* the framing buffer, the history and the turn counter as they were.      *)
(***************************************************************************)
StderrReported == Len(log') = Len(log) + 1 /\ Last(log') = "[MCP]"

CloseNoted == childExit' # childExit

StderrAdvisory ==
  [][(StderrReported \/ CloseNoted) =>
       /\ pendingRequests' = pendingRequests
       /\ requestId' = requestId
       /\ buffer' = buffer
       /\ messages' = messages
       /\ turn' = turn]_vars

StderrAndExitDuringCall ==
  /\ Reported("[MCP]")
  /\ Reported("[MCP process closed with code]")
  /\ childExit = "1"
  /\ DOMAIN pendingRequests # {}

(***************************************************************************)
(* C33: the history starts with the one user message of the operator and   *)
(* alternates user and assistant messages from there; the history given to *)
(* a model call ends with a user message; and the history only grows: a    *)
(* step appends messages and never removes or rewrites one.                *)
(***************************************************************************)
RoleAt(i) == IF i % 2 = 1 THEN "user" ELSE "assistant"

HistoryAlternates ==
  /\ \A i \in 1..Len(messages) : messages[i].role = RoleAt(i)
  /\ messages # <<>> => messages[1] = Prompt
  /\ modelCalls > 0 =>
       /\ lastRequest.messages # <<>>
       /\ lastRequest.messages[1] = Prompt
       /\ Last(lastRequest.messages).role = "user"

HistoryGrows ==
  /\ Len(messages') >= Len(messages)
  /\ SubSeq(messages', 1, Len(messages)) = messages

HistoryAlternatesAndGrows == []HistoryAlternates /\ [][HistoryGrows]_vars

\* A third model call was made on a history of five messages.
ThirdCallOnFiveMessages ==
  /\ modelCalls = 3
  /\ Len(lastRequest.messages) = 5
  /\ Len(messages) >= 5

(***************************************************************************)
(* C34 as stated: when every model call returns and every RPC request is   *)
(* settled by its response or its timeout, the run ends after at most      *)
(* MAX_TURNS model calls.                                                  *)
(***************************************************************************)
RunEnded == pc \in {"finished", "exited"}

BuiltinsReturn == []<>(pc # "builtin")

HandlesUnmatched ==
  /\ Len(handled') = Len(handled) + 1
  /\ Last(handled').id \notin DOMAIN pendingRequests

UnmatchedIgnored ==
  [][HandlesUnmatched =>
       /\ pendingRequests' = pendingRequests
       /\ calls' = calls
       /\ timers' = timers
       /\ requestId' = requestId]_vars

\* While the second call waits, the child answered the first call after its
\* timeout and sent a message without id and a response to an id not yet issued.
UnmatchedWhileCallPending ==
  /\ Len(calls) = 2
  /\ calls[1].via = "timeout"
  /\ calls[2].state = "pending"
  /\ 2 \in DOMAIN pendingRequests
  /\ Len(handled) = 3
  /\ {handled[i].id : i \in 1..3} = {0, 1, 2}
  /\ handled[3].id # 2

(***************************************************************************)
(* C36: only a response settles a call: a call settled by a message from   *)
(* the child was settled by a message that carries a result or an error,   *)
(* never by a request or notification of the child (a message with a       *)
(* method) whose id happens to be the call's id.                           *)
(***************************************************************************)
OnlyResponsesSettle ==
  \A k \in CallIdx :
    calls[k].via = "response" =>
      \E i \in 1..Len(handled) :
        /\ handled[i].id = calls[k].id
        /\ handled[i].member \in {"R", "E", "N"}

(***************************************************************************)
(* C37: after every chunk the retained buffer holds no newline and is      *)
(* exactly what the child wrote since its last newline, and the complete   *)
(* lines before it were each handed to the parser once, in stream order:   *)
(* no byte of the stream is lost or processed twice across chunks.         *)
(***************************************************************************)
SinceLastNewline == Last(split(received))

FramerBufferExact ==
  /\ \A i \in 1..Len(buffer) : buffer[i] # "NL"
  /\ buffer = toString(SinceLastNewline)
  /\ Len(handled) = Len(GoodLines)
  /\ \A i \in 1..Len(handled) : handled[i] = JSONparse(toString(GoodLines[i]))

(***************************************************************************)
(* C38: every entry of the pending map has an armed timer that will remove *)
(* it, also when the request could not be written to the child and when    *)
(* close was called while requests were pending.                           *)
(***************************************************************************)
PendingHasTimer ==
  \A id \in DOMAIN pendingRequests :
    \E i \in 1..Len(timers) : timers[i].id = id

====
